---- MODULE Spec2Model ----
(***************************************************************************)
(* A model of rclcpp's Node (include/rclcpp/node_impl.hpp): the callback   *)
(* group registry, the entity creation operations with their counters,    *)
(* and the mutex-guarded parameter store.                                  *)
(*                                                                         *)
(* Three specifications share the module:                                  *)
(*   Spec       the registry and the entity creation operations of two     *)
(*              nodes, called one after the other (the source does not     *)
(*              synchronise them);                                         *)
(*   SpecStore  the parameter store of one node, its six operations        *)
(*              called one after the other;                                *)
(*   SpecConc   the parameter store with one thread that sets and one that *)
(*              gets, every operation split at its statements, under       *)
(*              mutex_;                                                    *)
(*   SpecThreads  the parameter store with two threads that call any of    *)
(*              the six operations, split in the same way, with the        *)
(*              fairness of a scheduler that lets every thread run.        *)
(***************************************************************************)
EXTENDS Integers, Sequences, FiniteSets, TLC

VARIABLES
  \* ---- Node: registry, binder, counters (Spec) ----
  callback_groups_,          \* [Nodes -> Seq(group id)]: the weak references
  default_callback_group_,   \* [Nodes -> group id]: the strong reference
  number_of_subscriptions_,  \* [BindingNodes -> Nat]
  number_of_timers_,         \* [BindingNodes -> Nat]
  number_of_services_,       \* [BindingNodes -> Nat]
  number_of_clients_,        \* [BindingNodes -> Nat]
  heap,                      \* live CallbackGroup objects: [group id -> CallbackGroup]
  created_on,                \* history: [group id -> node that created it]
  next_group,                \* next fresh group identity
  next_entity,               \* next fresh entity identity
  rmw_handles,               \* entities whose middleware handle is outstanding
  bound_to,                  \* history: [entity id -> the group it was added to]
  node_call,                 \* history: the last Node operation and its outcome
  \* ---- Parameter store (SpecStore, SpecConc) ----
  parameters_,               \* std::map<std::string, ParameterVariant>
  store_call,                \* history: the last store operation, its input and result
  \* ---- Threads on the store (SpecConc) ----
  mutex_,                    \* the thread holding mutex_, or NoThread
  frames,                    \* [Threads -> stack frame of the store operation in progress]
  commit_count,              \* history: the number of set calls that have returned
  last_commit,               \* history: the last of them, and the map it left
  prev_commit                \* history: the one before it

node_vars == <<callback_groups_, default_callback_group_, number_of_subscriptions_,
               number_of_timers_, number_of_services_, number_of_clients_, heap,
               created_on, next_group, next_entity, rmw_handles, bound_to, node_call>>
conc_vars == <<mutex_, frames, commit_count, last_commit, prev_commit>>
vars == <<node_vars, parameters_, store_call, conc_vars>>

(***************************************************************************)
(* Bounds of the model.                                                    *)
(***************************************************************************)
MaxBatch == 2       \* longest parameter batch handed to a set operation
MaxNames == 2       \* longest list of names handed to a read operation
MaxPrefixes == 2    \* longest list of prefixes handed to list_parameters
MaxDepth == 3       \* largest depth handed to list_parameters

(***************************************************************************)
(* Strings.  A std::string is a sequence of characters, so that find,      *)
(* substr, count and the ordering of std::map can be computed.             *)
(***************************************************************************)
Dot == "."

\* the code of a character, for the ordering of std::string
CharCode(c) ==
  CASE c = "." -> 46
    [] c = "a" -> 97
    [] c = "b" -> 98
    [] c = "c" -> 99
    [] c = "x" -> 120

\* std::string::operator< : lexicographic order
RECURSIVE StringLess(_, _)
StringLess(s, t) ==
  IF t = <<>> THEN FALSE
  ELSE IF s = <<>> THEN TRUE
  ELSE IF CharCode(Head(s)) < CharCode(Head(t)) THEN TRUE
  ELSE IF CharCode(Head(s)) > CharCode(Head(t)) THEN FALSE
  ELSE StringLess(Tail(s), Tail(t))

\* kv.first.find(needle) == 0 : needle occurs at position 0 of s
FindAtZero(s, needle) ==
  /\ Len(needle) <= Len(s)
  /\ SubSeq(s, 1, Len(needle)) = needle

\* s.substr(pos) : the characters of s from position pos (0-based) to the end
Substr(s, pos) == SubSeq(s, pos + 1, Len(s))

\* std::count(s.begin(), s.end(), c)
RECURSIVE Count(_, _)
Count(s, c) ==
  IF s = <<>> THEN 0
  ELSE (IF Head(s) = c THEN 1 ELSE 0) + Count(Tail(s), c)

\* the positions (0-based) of c in s, and s.find_last_of(c); Npos when there is none
Npos == -1
FindLastOf(s, c) ==
  LET hits == {i \in 1..Len(s) : s[i] = c}
  IN IF hits = {} THEN Npos
     ELSE (CHOOSE i \in hits : \A j \in hits : j <= i) - 1

\* s.substr(0, n) ; n = npos takes the whole string
SubstrTo(s, n) == IF n = Npos THEN s ELSE SubSeq(s, 1, n)

(***************************************************************************)
(* The inputs of the store: names, values, prefixes.                       *)
(***************************************************************************)
ParamNames == { <<"a", ".", "b">>, <<"a", ".", "b", ".", "c">>, <<"a", ".", "x">> }

Prefixes == { <<"a">>, <<"a", ".", "b">>, <<"b">> }

PARAMETER_NOT_SET == "PARAMETER_NOT_SET"
PARAMETER_BOOL == "PARAMETER_BOOL"
PARAMETER_INTEGER == "PARAMETER_INTEGER"

\* rcl_interfaces::ParameterValue: a type tag and one field per type
ParamValues ==
  { [parameter_type |-> PARAMETER_INTEGER, bool_value |-> FALSE, integer_value |-> 5],
    [parameter_type |-> PARAMETER_BOOL, bool_value |-> TRUE, integer_value |-> 0] }

\* rcl_interfaces::Parameter
Parameters == [name : ParamNames, value : ParamValues]

\* all sequences over S of length at most n
SeqsUpTo(S, n) == UNION { [1..k -> S] : k \in 0..n }

\* ParameterVariant::from_parameter: the variant holds the name, the type tag
\* and the field of the value that the tag selects
from_parameter(p) ==
  [name_ |-> p.name,
   type_ |-> p.value.parameter_type,
   value_ |-> IF p.value.parameter_type = PARAMETER_INTEGER
              THEN p.value.integer_value
              ELSE p.value.bool_value]

\* ParameterVariant::get_type
get_type(variant) == variant.type_

(***************************************************************************)
(* std::map<std::string, ParameterVariant>: a function on its key set.     *)
(***************************************************************************)
EmptyMap == [k \in {} |-> 0]

\* the keys of a map in iteration order (ascending)
RECURSIVE SortedKeys(_)
SortedKeys(keys) ==
  IF keys = {} THEN <<>>
  ELSE LET least == CHOOSE k \in keys : \A o \in keys \ {k} : StringLess(k, o)
       IN <<least>> \o SortedKeys(keys \ {least})

MapBegin(m) == SortedKeys(DOMAIN m)

\* an insert that leaves an existing entry as it is
MapInsertIfAbsent(m, key, value) ==
  [k \in DOMAIN m \cup {key} |-> IF k \in DOMAIN m THEN m[k] ELSE value]

\* m[key] = value : operator[] inserts the key when absent, then assigns
MapAssign(m, key, value) ==
  [k \in DOMAIN m \cup {key} |-> IF k = key THEN value ELSE m[k]]

\* m.insert(first, last) : inserts the entries of other whose key m lacks
MapInsertRange(m, other) ==
  [k \in DOMAIN m \cup DOMAIN other |-> IF k \in DOMAIN m THEN m[k] ELSE other[k]]

\* std::any_of(names.cbegin(), names.cend(), [&kv](name) { return name == kv.first; })
AnyOfNames(names, key) == \E i \in 1..Len(names) : names[i] = key

(***************************************************************************)
(* The parameter store: each operation as the function its loop computes.  *)
(* The loop bodies are operators of their own; SpecConc runs the same      *)
(* bodies one iteration at a time.                                         *)
(***************************************************************************)

\* an update that assigns only to an entry that exists already; operator[] has
\* default-constructed the entry of a new name
SetParametersStepUpdateOnly(m, p) ==
  IF p.name \in DOMAIN m
  THEN MapAssign(m, p.name, from_parameter(p))
  ELSE MapAssign(m, p.name, [name_ |-> <<>>, type_ |-> PARAMETER_NOT_SET, value_ |-> FALSE])

\* set_parameters, one iteration: parameters_[p.name] = from_parameter(p)
SetParametersStep(m, p) == MapAssign(m, p.name, from_parameter(p))

\* a loop that runs over the batch from its end to its start
RECURSIVE SetParametersLoopReversed(_, _)
SetParametersLoopReversed(m, parameters) ==
  IF parameters = <<>> THEN m
  ELSE LET p == parameters[Len(parameters)]
       IN SetParametersLoopReversed(MapAssign(m, p.name, from_parameter(p)),
                                    SubSeq(parameters, 1, Len(parameters) - 1))

RECURSIVE SetParametersLoop(_, _)
SetParametersLoop(m, parameters) ==
  IF parameters = <<>> THEN m
  ELSE SetParametersLoop(SetParametersStep(m, Head(parameters)), Tail(parameters))

\* one SetParametersResult per input, each successful
SetParametersResults(parameters) ==
  [i \in 1..Len(parameters) |-> [successful |-> TRUE]]

set_parameters(m, parameters) ==
  [map |-> SetParametersLoop(m, parameters),
   result |-> SetParametersResults(parameters)]

\* set_parameters_atomically: tmp_map[p.name] = from_parameter(p) for each p
StageParameters(parameters) == SetParametersLoop(EmptyMap, parameters)

\* a merge in which the existing entries overwrite the staged ones
MergeExistingOverwrites(tmp_map, m) == MapInsertRange(m, tmp_map)

\* a merge that is left out: the staged entries alone
MergeExistingSkipped(tmp_map, m) == tmp_map

\* tmp_map.insert(parameters_.begin(), parameters_.end())
MergeExisting(tmp_map, m) == MapInsertRange(tmp_map, m)

set_parameters_atomically(m, parameters) ==
  \* std::swap(tmp_map, parameters_) leaves the merged map in parameters_
  [map |-> MergeExisting(StageParameters(parameters), m),
   result |-> [successful |-> TRUE]]

\* a loop body that pushes the value once per request of the name
GetParametersStepPerRequest(results, m, key, names) ==
  results \o [i \in 1..Cardinality({j \in 1..Len(names) : names[j] = key}) |-> m[key]]

\* get_parameters, one iteration over kv = (key, m[key])
GetParametersStep(results, m, key, names) ==
  IF AnyOfNames(names, key) THEN Append(results, m[key]) ELSE results

RECURSIVE GetParametersLoop(_, _, _, _)
GetParametersLoop(results, m, keys, names) ==
  IF keys = <<>> THEN results
  ELSE GetParametersLoop(GetParametersStep(results, m, Head(keys), names),
                         m, Tail(keys), names)

get_parameters(m, names) == GetParametersLoop(<<>>, m, MapBegin(m), names)

\* describe_parameters, one iteration
DescribeParametersStep(results, m, key, names) ==
  IF AnyOfNames(names, key)
  THEN Append(results, [name |-> key, parameter_type |-> get_type(m[key])])
  ELSE results

RECURSIVE DescribeParametersLoop(_, _, _, _)
DescribeParametersLoop(results, m, keys, names) ==
  IF keys = <<>> THEN results
  ELSE DescribeParametersLoop(DescribeParametersStep(results, m, Head(keys), names),
                              m, Tail(keys), names)

describe_parameters(m, names) == DescribeParametersLoop(<<>>, m, MapBegin(m), names)

\* get_parameter_types, one iteration: the loop runs over the store
GetParameterTypesStep(results, m, key, names) ==
  IF AnyOfNames(names, key)
  THEN Append(results, get_type(m[key]))
  ELSE Append(results, PARAMETER_NOT_SET)

RECURSIVE GetParameterTypesLoop(_, _, _, _)
GetParameterTypesLoop(results, m, keys, names) ==
  IF keys = <<>> THEN results
  ELSE GetParameterTypesLoop(GetParameterTypesStep(results, m, Head(keys), names),
                             m, Tail(keys), names)

get_parameter_types(m, names) == GetParameterTypesLoop(<<>>, m, MapBegin(m), names)

\* list_parameters: the lambda handed to any_of, for one prefix
PrefixMatches(key, prefix, depth) ==
  IF FindAtZero(key, prefix \o <<Dot>>)
  THEN LET length == Len(prefix)
           substr == Substr(key, length)
       IN Count(substr, Dot) < depth
  ELSE FALSE

AnyOfPrefixes(prefixes, key, depth) ==
  \E i \in 1..Len(prefixes) : PrefixMatches(key, prefixes[i], depth)

\* the record built for one matching key
ListParametersRecord(key) ==
  LET last_separator == FindLastOf(key, Dot)
      prefix == SubstrTo(key, last_separator)
      parameter_prefixes == <<>>
  IN [parameter_names |-> <<key>>,
      parameter_prefixes |->
        IF \A i \in 1..Len(parameter_prefixes) : parameter_prefixes[i] # prefix
        THEN Append(parameter_prefixes, prefix)
        ELSE parameter_prefixes]

\* a loop body that emits one record for each prefix the key matches
ListParametersStepPerPrefix(results, key, prefixes, depth) ==
  LET hits == {i \in 1..Len(prefixes) : PrefixMatches(key, prefixes[i], depth)}
  IN results \o [j \in 1..Cardinality(hits) |-> ListParametersRecord(key)]

\* list_parameters, one iteration over kv = (key, m[key])
ListParametersStep(results, key, prefixes, depth) ==
  IF AnyOfPrefixes(prefixes, key, depth)
  THEN Append(results, ListParametersRecord(key))
  ELSE results

RECURSIVE ListParametersLoop(_, _, _, _)
ListParametersLoop(results, keys, prefixes, depth) ==
  IF keys = <<>> THEN results
  ELSE ListParametersLoop(ListParametersStep(results, Head(keys), prefixes, depth),
                          Tail(keys), prefixes, depth)

list_parameters(m, prefixes, depth) ==
  ListParametersLoop(<<>>, MapBegin(m), prefixes, depth)

(***************************************************************************)
(* SpecStore: the six store operations, one whole call per step.           *)
(***************************************************************************)
NoStoreCall ==
  [op |-> "none", parameters |-> <<>>, names |-> <<>>, prefixes |-> <<>>,
   depth |-> 0, pre |-> EmptyMap, result |-> <<>>]

StoreCall(op, parameters, names, prefixes, depth, result) ==
  [op |-> op, parameters |-> parameters, names |-> names, prefixes |-> prefixes,
   depth |-> depth, pre |-> parameters_, result |-> result]

Batches == SeqsUpTo(Parameters, MaxBatch)
NameLists == SeqsUpTo(ParamNames, MaxNames)
PrefixLists == SeqsUpTo(Prefixes, MaxPrefixes)
Depths == 0..MaxDepth

SetParameters(parameters) ==
  LET r == set_parameters(parameters_, parameters)
  IN /\ store_call.op = "none"
     /\ parameters_' = r.map
     /\ store_call' = StoreCall("set_parameters", parameters, <<>>, <<>>, 0, r.result)
     /\ UNCHANGED <<node_vars, conc_vars>>

SetParametersAtomically(parameters) ==
  LET r == set_parameters_atomically(parameters_, parameters)
  IN /\ store_call.op = "none"
     /\ parameters_' = r.map
     /\ store_call' =
          StoreCall("set_parameters_atomically", parameters, <<>>, <<>>, 0, r.result)
     /\ UNCHANGED <<node_vars, conc_vars>>

GetParameters(names) ==
  /\ store_call.op = "none"
  /\ store_call' = StoreCall("get_parameters", <<>>, names, <<>>, 0,
                             get_parameters(parameters_, names))
  /\ UNCHANGED <<parameters_, node_vars, conc_vars>>

DescribeParameters(names) ==
  /\ store_call.op = "none"
  /\ store_call' = StoreCall("describe_parameters", <<>>, names, <<>>, 0,
                             describe_parameters(parameters_, names))
  /\ UNCHANGED <<parameters_, node_vars, conc_vars>>

GetParameterTypes(names) ==
  /\ store_call.op = "none"
  /\ store_call' = StoreCall("get_parameter_types", <<>>, names, <<>>, 0,
                             get_parameter_types(parameters_, names))
  /\ UNCHANGED <<parameters_, node_vars, conc_vars>>

ListParameters(prefixes, depth) ==
  /\ store_call.op = "none"
  /\ store_call' = StoreCall("list_parameters", <<>>, <<>>, prefixes, depth,
                             list_parameters(parameters_, prefixes, depth))
  /\ UNCHANGED <<parameters_, node_vars, conc_vars>>

\* the caller has taken the result of the last call and is ready for the next
TakeResult ==
  /\ store_call.op # "none"
  /\ store_call' = NoStoreCall
  /\ UNCHANGED <<parameters_, node_vars, conc_vars>>

(***************************************************************************)
(* Node: the callback group registry and the entity creation operations.   *)
(***************************************************************************)
MaxGroups == 2      \* groups created after the two default groups
MaxEntities == 2    \* entity creation calls

Nodes == {"n1", "n2"}
CallbackGroupTypes == {"MutuallyExclusive", "Reentrant"}

\* the node whose entity creation operations are called, and whose counters are
\* therefore kept; the other node creates the groups that are foreign to it
BindingNodes == {"n1"}

\* the type callers ask for; the default groups are MutuallyExclusive, and no
\* operation of the Node reads the type
CallerGroupTypes == {"Reentrant"}

\* the values sampled for a member that the constructor leaves uninitialised
Indeterminate == {0, 1}

\* the empty SharedPtr; group and entity identities start at 1
NoGroup == 0

\* CallbackGroup(group_type): the type and one collection of references per kind
NewCallbackGroup(group_type) ==
  [type_ |-> group_type, subscription_ptrs_ |-> {}, timer_ptrs_ |-> {},
   service_ptrs_ |-> {}, client_ptrs_ |-> {}]

\* CallbackGroup::add_subscription, add_timer, add_service, add_client
add_subscription(g, e) == [g EXCEPT !.subscription_ptrs_ = @ \cup {e}]
add_timer(g, e) == [g EXCEPT !.timer_ptrs_ = @ \cup {e}]
add_service(g, e) == [g EXCEPT !.service_ptrs_ = @ \cup {e}]
add_client(g, e) == [g EXCEPT !.client_ptrs_ = @ \cup {e}]

\* the entities a group refers to, of every kind
Members(g) == g.subscription_ptrs_ \cup g.timer_ptrs_ \cup g.service_ptrs_ \cup g.client_ptrs_

\* weak_group.lock(): the group when it is alive, the empty pointer otherwise
Lock(weak_group) == IF weak_group \in DOMAIN heap THEN weak_group ELSE NoGroup

\* a loop body that keeps only the outcome of the last comparison
GroupInNodeStepLastOnly(group_belongs_to_this_node, weak_group, group) ==
  LET cur_group == Lock(weak_group)
  IN cur_group # NoGroup /\ cur_group = group

\* group_in_node, one iteration of its loop
GroupInNodeStep(group_belongs_to_this_node, weak_group, group) ==
  LET cur_group == Lock(weak_group)
  IN IF cur_group # NoGroup /\ cur_group = group
     THEN TRUE
     ELSE group_belongs_to_this_node

RECURSIVE GroupInNodeLoop(_, _, _)
GroupInNodeLoop(group_belongs_to_this_node, weak_groups, group) ==
  IF weak_groups = <<>> THEN group_belongs_to_this_node
  ELSE GroupInNodeLoop(
         GroupInNodeStep(group_belongs_to_this_node, Head(weak_groups), group),
         Tail(weak_groups), group)

group_in_node(n, group) == GroupInNodeLoop(FALSE, callback_groups_[n], group)

\* a binder that does not validate the supplied group
ResolveGroupUnchecked(n, group) ==
  IF group # NoGroup
  THEN [thrown |-> FALSE, group |-> group]
  ELSE [thrown |-> FALSE, group |-> default_callback_group_[n]]

\* a binder that validates the supplied group and then binds to the default group
ResolveGroupToDefault(n, group) ==
  IF group # NoGroup /\ ~group_in_node(n, group)
  THEN [thrown |-> TRUE, group |-> NoGroup]
  ELSE [thrown |-> FALSE, group |-> default_callback_group_[n]]

\* the if (group) { if (!group_in_node(group)) throw ...; } else { default } of the
\* four creation operations: the group the entity goes to, or the exception
ResolveGroup(n, group) ==
  IF group # NoGroup
  THEN IF ~group_in_node(n, group)
       THEN [thrown |-> TRUE, group |-> NoGroup]
       ELSE [thrown |-> FALSE, group |-> group]
  ELSE [thrown |-> FALSE, group |-> default_callback_group_[n]]

\* the counters of all nodes, and the state a call starts from
Counters ==
  [subscriptions |-> number_of_subscriptions_, timers |-> number_of_timers_,
   services |-> number_of_services_, clients |-> number_of_clients_]

NodeCall(op, n, group, entity, result) ==
  [op |-> op, node |-> n, group |-> group, entity |-> entity, result |-> result,
   pre_heap |-> heap, pre_counters |-> Counters, pre_handles |-> rmw_handles]

\* the middleware handles given back when a creation operation is left by its
\* exception: the wrapper objects (Subscription, Client, Service) only store the
\* handle, and the operation itself calls no rmw_destroy function
ReleasedOnUnwind(handle) == {}

\* groups a caller can hand to a creation operation: the live groups that
\* create_callback_group returned (of either node), or none
DefaultGroups == {default_callback_group_[n] : n \in Nodes}
CallerGroups == (DOMAIN heap) \ DefaultGroups

InitNode ==
  /\ callback_groups_ = [n \in Nodes |-> IF n = "n1" THEN <<1>> ELSE <<2>>]
  /\ default_callback_group_ = [n \in Nodes |-> IF n = "n1" THEN 1 ELSE 2]
  /\ heap = [g \in {1, 2} |-> NewCallbackGroup("MutuallyExclusive")]
  /\ created_on = [g \in {1, 2} |-> IF g = 1 THEN "n1" ELSE "n2"]
  /\ next_group = 3
  /\ next_entity = 1
  /\ rmw_handles = {}
  /\ bound_to = <<>>
  /\ number_of_subscriptions_ = [n \in BindingNodes |-> 0]
  /\ number_of_timers_ = [n \in BindingNodes |-> 0]
  /\ number_of_services_ = [n \in BindingNodes |-> 0]
     \* the constructor's initialiser list leaves number_of_clients_ out
  /\ number_of_clients_ \in [BindingNodes -> Indeterminate]
  /\ node_call = [op |-> "Node", node |-> "n1", group |-> NoGroup, entity |-> 0,
                  result |-> "ok", pre_heap |-> heap, pre_counters |-> Counters,
                  pre_handles |-> rmw_handles]

\* a registry that puts the new reference in front of the others
CreateCallbackGroupPushFront(n, group_type) ==
  /\ next_group <= 2 + MaxGroups
  /\ heap' = [g \in DOMAIN heap \cup {next_group} |->
                IF g = next_group THEN NewCallbackGroup(group_type) ELSE heap[g]]
  /\ callback_groups_' = [callback_groups_ EXCEPT ![n] = <<next_group>> \o @]
  /\ created_on' = [g \in DOMAIN created_on \cup {next_group} |->
                      IF g = next_group THEN n ELSE created_on[g]]
  /\ next_group' = next_group + 1
  /\ node_call' = NodeCall("create_callback_group", n, next_group, 0, "ok")
  /\ UNCHANGED <<default_callback_group_, number_of_subscriptions_, number_of_timers_,
                 number_of_services_, number_of_clients_, next_entity, rmw_handles,
                 bound_to>>

CreateCallbackGroup(n, group_type) ==
  /\ next_group <= 2 + MaxGroups
  /\ heap' = [g \in DOMAIN heap \cup {next_group} |->
                IF g = next_group THEN NewCallbackGroup(group_type) ELSE heap[g]]
  /\ callback_groups_' = [callback_groups_ EXCEPT ![n] = Append(@, next_group)]
  /\ created_on' = [g \in DOMAIN created_on \cup {next_group} |->
                      IF g = next_group THEN n ELSE created_on[g]]
  /\ next_group' = next_group + 1
  /\ node_call' = NodeCall("create_callback_group", n, next_group, 0, "ok")
  /\ UNCHANGED <<default_callback_group_, number_of_subscriptions_, number_of_timers_,
                 number_of_services_, number_of_clients_, next_entity, rmw_handles,
                 bound_to>>

\* the caller lets go of the handle create_callback_group returned: the group is
\* destroyed and the node's weak reference to it expires
DropGroup(group) ==
  /\ group \in CallerGroups
  /\ heap' = [g \in DOMAIN heap \ {group} |-> heap[g]]
  /\ node_call' = NodeCall("drop_group", created_on[group], group, 0, "ok")
  /\ UNCHANGED <<callback_groups_, default_callback_group_, number_of_subscriptions_,
                 number_of_timers_, number_of_services_, number_of_clients_,
                 created_on, next_group, next_entity, rmw_handles, bound_to>>

\* a publisher that is counted as the subscriptions are
CreatePublisherCounted(n) ==
  /\ next_entity <= MaxEntities
  /\ next_entity' = next_entity + 1
  /\ rmw_handles' = rmw_handles \cup {next_entity}
  /\ bound_to' = Append(bound_to, NoGroup)
  /\ number_of_subscriptions_' = [number_of_subscriptions_ EXCEPT ![n] = @ + 1]
  /\ node_call' = NodeCall("create_publisher", n, NoGroup, next_entity, "ok")
  /\ UNCHANGED <<callback_groups_, default_callback_group_, number_of_timers_,
                 number_of_services_, number_of_clients_, heap, created_on, next_group>>

\* a publisher that is put into the default group as the subscriptions are
CreatePublisherBound(n) ==
  /\ next_entity <= MaxEntities
  /\ next_entity' = next_entity + 1
  /\ rmw_handles' = rmw_handles \cup {next_entity}
  /\ bound_to' = Append(bound_to, NoGroup)
  /\ heap' = [heap EXCEPT ![default_callback_group_[n]] = add_subscription(@, next_entity)]
  /\ node_call' = NodeCall("create_publisher", n, NoGroup, next_entity, "ok")
  /\ UNCHANGED <<callback_groups_, default_callback_group_, number_of_subscriptions_,
                 number_of_timers_, number_of_services_, number_of_clients_,
                 created_on, next_group>>

CreatePublisher(n) ==
  /\ next_entity <= MaxEntities
  /\ next_entity' = next_entity + 1
  /\ rmw_handles' = rmw_handles \cup {next_entity}
  /\ bound_to' = Append(bound_to, NoGroup)
  /\ node_call' = NodeCall("create_publisher", n, NoGroup, next_entity, "ok")
  /\ UNCHANGED <<callback_groups_, default_callback_group_, number_of_subscriptions_,
                 number_of_timers_, number_of_services_, number_of_clients_, heap,
                 created_on, next_group>>

CreateSubscription(n, group) ==
  LET sub == next_entity
      target == ResolveGroup(n, group)
  IN /\ next_entity <= MaxEntities
     /\ next_entity' = next_entity + 1
     /\ IF target.thrown
        THEN /\ rmw_handles' = (rmw_handles \cup {sub}) \ ReleasedOnUnwind(sub)
             /\ bound_to' = Append(bound_to, NoGroup)
             /\ node_call' = NodeCall("create_subscription", n, group, sub, "runtime_error")
             /\ UNCHANGED <<heap, number_of_subscriptions_>>
        ELSE /\ heap' = [heap EXCEPT ![target.group] = add_subscription(@, sub)]
             /\ number_of_subscriptions_' = [number_of_subscriptions_ EXCEPT ![n] = @ + 1]
             /\ rmw_handles' = rmw_handles \cup {sub}
             /\ bound_to' = Append(bound_to, target.group)
             /\ node_call' = NodeCall("create_subscription", n, group, sub, "ok")
     /\ UNCHANGED <<callback_groups_, default_callback_group_, number_of_timers_,
                    number_of_services_, number_of_clients_, created_on, next_group>>

CreateWallTimer(n, group) ==
  LET timer == next_entity
      target == ResolveGroup(n, group)
  IN /\ next_entity <= MaxEntities
     /\ next_entity' = next_entity + 1
     /\ IF target.thrown
        THEN /\ bound_to' = Append(bound_to, NoGroup)
             /\ node_call' = NodeCall("create_wall_timer", n, group, timer, "runtime_error")
             /\ UNCHANGED <<heap, number_of_timers_>>
        ELSE /\ heap' = [heap EXCEPT ![target.group] = add_timer(@, timer)]
             /\ number_of_timers_' = [number_of_timers_ EXCEPT ![n] = @ + 1]
             /\ bound_to' = Append(bound_to, target.group)
             /\ node_call' = NodeCall("create_wall_timer", n, group, timer, "ok")
     /\ UNCHANGED <<callback_groups_, default_callback_group_, number_of_subscriptions_,
                    number_of_services_, number_of_clients_, created_on, next_group,
                    rmw_handles>>

CreateClient(n, group) ==
  LET cli == next_entity
      target == ResolveGroup(n, group)
  IN /\ next_entity <= MaxEntities
     /\ next_entity' = next_entity + 1
     /\ IF target.thrown
        THEN /\ rmw_handles' = (rmw_handles \cup {cli}) \ ReleasedOnUnwind(cli)
             /\ bound_to' = Append(bound_to, NoGroup)
             /\ node_call' = NodeCall("create_client", n, group, cli, "runtime_error")
             /\ UNCHANGED <<heap, number_of_clients_>>
        ELSE /\ heap' = [heap EXCEPT ![target.group] = add_client(@, cli)]
             /\ number_of_clients_' = [number_of_clients_ EXCEPT ![n] = @ + 1]
             /\ rmw_handles' = rmw_handles \cup {cli}
             /\ bound_to' = Append(bound_to, target.group)
             /\ node_call' = NodeCall("create_client", n, group, cli, "ok")
     /\ UNCHANGED <<callback_groups_, default_callback_group_, number_of_subscriptions_,
                    number_of_timers_, number_of_services_, created_on, next_group>>

CreateService(n, group) ==
  LET serv == next_entity
      target == ResolveGroup(n, group)
  IN /\ next_entity <= MaxEntities
     /\ next_entity' = next_entity + 1
     /\ IF target.thrown
        THEN /\ rmw_handles' = (rmw_handles \cup {serv}) \ ReleasedOnUnwind(serv)
             /\ bound_to' = Append(bound_to, NoGroup)
             /\ node_call' = NodeCall("create_service", n, group, serv, "runtime_error")
             /\ UNCHANGED <<heap, number_of_services_>>
        ELSE /\ heap' = [heap EXCEPT ![target.group] = add_service(@, serv)]
             /\ number_of_services_' = [number_of_services_ EXCEPT ![n] = @ + 1]
             /\ rmw_handles' = rmw_handles \cup {serv}
             /\ bound_to' = Append(bound_to, target.group)
             /\ node_call' = NodeCall("create_service", n, group, serv, "ok")
     /\ UNCHANGED <<callback_groups_, default_callback_group_, number_of_subscriptions_,
                    number_of_timers_, number_of_clients_, created_on, next_group>>

(***************************************************************************)
(* SpecConc: store operations called from several threads.  Every          *)
(* operation takes mutex_ in its first statement (std::lock_guard) and     *)
(* gives it back when it returns; between the two it runs one statement or *)
(* one loop iteration per step.                                            *)
(***************************************************************************)
\* one thread issues a set call, the other any number of reads
Threads == {"t1", "t2"}
Writers == {"t1"}
Readers == {"t2"}

\* the names the threads use, the batches and name lists over them, and the
\* maps that set calls over these names leave in the store
ConcNames == { <<"a", ".", "b">>, <<"a", ".", "x">> }
ConcBatches == SeqsUpTo([name : ConcNames, value : ParamValues], MaxBatch)
ConcNameLists == SeqsUpTo(ConcNames, MaxNames)
ConcMaps ==
  UNION { { [k \in keys |-> from_parameter([name |-> k, value |-> value[k]])] :
              value \in [keys -> ParamValues] } :
          keys \in SUBSET ConcNames }
NoThread == "none"
WriteOps == {"set_parameters", "set_parameters_atomically"}
NamedReadOps == {"describe_parameters", "get_parameter_types"}
ReadOps == {"get_parameters", "describe_parameters", "get_parameter_types", "list_parameters"}

\* the end of a string-keyed iteration has no key; the empty string sorts first
BeforeBegin == <<>>

IdleFrame ==
  [pc |-> "idle", op |-> "none", parameters |-> <<>>, names |-> <<>>,
   prefixes |-> <<>>, depth |-> 0, todo |-> <<>>, tmp_map |-> EmptyMap, results |-> <<>>, it |-> BeforeBegin,
   first |-> 0]

InitStore ==
  /\ parameters_ = EmptyMap
  /\ store_call = NoStoreCall

InitConc ==
  /\ mutex_ = NoThread
  /\ frames = [t \in Threads |-> IdleFrame]
  /\ commit_count = 0
  /\ last_commit = [map |-> parameters_, op |-> "none", parameters |-> <<>>]
  /\ prev_commit = last_commit

\* a lock that is never waited for
MutexNotWaitedFor == TRUE

\* std::lock_guard<std::mutex> lock(mutex_) returns once no thread holds mutex_
MutexAvailable == mutex_ = NoThread

\* the store iterator: the key that follows it in m, if any
KeysAfter(m, it) == {k \in DOMAIN m : StringLess(it, k)}
NextKey(m, it) ==
  CHOOSE k \in KeysAfter(m, it) : \A o \in KeysAfter(m, it) \ {k} : StringLess(k, o)

\* a thread enters a store operation
CallSet(t, op, parameters) ==
  /\ frames[t].pc = "idle"
  /\ frames' = [frames EXCEPT ![t] =
       [IdleFrame EXCEPT !.pc = "lock", !.op = op, !.parameters = parameters,
                         !.todo = parameters, !.first = commit_count]]
  /\ UNCHANGED <<mutex_, commit_count, last_commit, prev_commit, parameters_, store_call, node_vars>>

CallGet(t, names) ==
  /\ frames[t].pc = "idle"
  /\ frames' = [frames EXCEPT ![t] =
       [IdleFrame EXCEPT !.pc = "lock", !.op = "get_parameters", !.names = names,
                         !.first = commit_count]]
  /\ UNCHANGED <<mutex_, commit_count, last_commit, prev_commit, parameters_, store_call, node_vars>>

\* a thread enters describe_parameters or get_parameter_types
CallNamed(t, op, names) ==
  /\ frames[t].pc = "idle"
  /\ frames' = [frames EXCEPT ![t] =
       [IdleFrame EXCEPT !.pc = "lock", !.op = op, !.names = names,
                         !.first = commit_count]]
  /\ UNCHANGED <<mutex_, commit_count, last_commit, prev_commit, parameters_, store_call, node_vars>>

\* a thread enters list_parameters
CallList(t, prefixes, depth) ==
  /\ frames[t].pc = "idle"
  /\ frames' = [frames EXCEPT ![t] =
       [IdleFrame EXCEPT !.pc = "lock", !.op = "list_parameters",
                         !.prefixes = prefixes, !.depth = depth,
                         !.first = commit_count]]
  /\ UNCHANGED <<mutex_, commit_count, last_commit, prev_commit, parameters_, store_call, node_vars>>

\* a lock that the read operations do not take
AcquireMutexReadersSkip(t) ==
  /\ frames[t].pc = "lock"
  /\ frames[t].op \in ReadOps \/ MutexAvailable
  /\ mutex_' = IF frames[t].op \in ReadOps THEN mutex_ ELSE t
  /\ frames' = [frames EXCEPT ![t].pc = "loop"]
  /\ UNCHANGED <<commit_count, last_commit, prev_commit, parameters_, store_call, node_vars>>

\* std::lock_guard<std::mutex> lock(mutex_);
AcquireMutex(t) ==
  /\ frames[t].pc = "lock"
  /\ MutexAvailable
  /\ mutex_' = t
  /\ frames' = [frames EXCEPT ![t].pc = "loop"]
  /\ UNCHANGED <<commit_count, last_commit, prev_commit, parameters_, store_call, node_vars>>

\* set_parameters: one iteration of for (auto p : parameters)
SetParametersIter(t) ==
  /\ frames[t].pc = "loop"
  /\ frames[t].op = "set_parameters"
  /\ frames[t].todo # <<>>
  /\ parameters_' = SetParametersStep(parameters_, Head(frames[t].todo))
  /\ frames' = [frames EXCEPT ![t].todo = Tail(@),
                              ![t].results = Append(@, [successful |-> TRUE])]
  /\ UNCHANGED <<mutex_, commit_count, last_commit, prev_commit, store_call, node_vars>>

\* set_parameters_atomically: one iteration of the loop that fills tmp_map
StageIter(t) ==
  /\ frames[t].pc = "loop"
  /\ frames[t].op = "set_parameters_atomically"
  /\ frames[t].todo # <<>>
  /\ frames' = [frames EXCEPT ![t].todo = Tail(@),
                              ![t].tmp_map = SetParametersStep(@, Head(frames[t].todo))]
  /\ UNCHANGED <<mutex_, commit_count, last_commit, prev_commit, parameters_, store_call, node_vars>>

\* tmp_map.insert(parameters_.begin(), parameters_.end());
InsertExisting(t) ==
  /\ frames[t].pc = "loop"
  /\ frames[t].op = "set_parameters_atomically"
  /\ frames[t].todo = <<>>
  /\ frames' = [frames EXCEPT ![t].tmp_map = MergeExisting(@, parameters_),
                              ![t].pc = "swap"]
  /\ UNCHANGED <<mutex_, commit_count, last_commit, prev_commit, parameters_, store_call, node_vars>>

\* std::swap(tmp_map, parameters_);
SwapMaps(t) ==
  /\ frames[t].pc = "swap"
  /\ parameters_' = frames[t].tmp_map
  /\ frames' = [frames EXCEPT ![t].tmp_map = parameters_,
                              ![t].results = [successful |-> TRUE],
                              ![t].pc = "return"]
  /\ UNCHANGED <<mutex_, commit_count, last_commit, prev_commit, store_call, node_vars>>

\* get_parameters: one iteration of for (auto & kv : parameters_)
GetParametersIter(t) ==
  /\ frames[t].pc = "loop"
  /\ frames[t].op = "get_parameters"
  /\ KeysAfter(parameters_, frames[t].it) # {}
  /\ LET key == NextKey(parameters_, frames[t].it)
     IN frames' = [frames EXCEPT
          ![t].results = GetParametersStep(@, parameters_, key, frames[t].names),
          ![t].it = key]
  /\ UNCHANGED <<mutex_, commit_count, last_commit, prev_commit, parameters_, store_call, node_vars>>

\* describe_parameters: one iteration of for (auto & kv : parameters_)
DescribeParametersIter(t) ==
  /\ frames[t].pc = "loop"
  /\ frames[t].op = "describe_parameters"
  /\ KeysAfter(parameters_, frames[t].it) # {}
  /\ LET key == NextKey(parameters_, frames[t].it)
     IN frames' = [frames EXCEPT
          ![t].results = DescribeParametersStep(@, parameters_, key, frames[t].names),
          ![t].it = key]
  /\ UNCHANGED <<mutex_, commit_count, last_commit, prev_commit, parameters_, store_call, node_vars>>

\* get_parameter_types: one iteration of for (auto & kv : parameters_)
GetParameterTypesIter(t) ==
  /\ frames[t].pc = "loop"
  /\ frames[t].op = "get_parameter_types"
  /\ KeysAfter(parameters_, frames[t].it) # {}
  /\ LET key == NextKey(parameters_, frames[t].it)
     IN frames' = [frames EXCEPT
          ![t].results = GetParameterTypesStep(@, parameters_, key, frames[t].names),
          ![t].it = key]
  /\ UNCHANGED <<mutex_, commit_count, last_commit, prev_commit, parameters_, store_call, node_vars>>

\* list_parameters: one iteration of for (auto & kv : parameters_)
ListParametersIter(t) ==
  /\ frames[t].pc = "loop"
  /\ frames[t].op = "list_parameters"
  /\ KeysAfter(parameters_, frames[t].it) # {}
  /\ LET key == NextKey(parameters_, frames[t].it)
     IN frames' = [frames EXCEPT
          ![t].results = ListParametersStep(@, key, frames[t].prefixes, frames[t].depth),
          ![t].it = key]
  /\ UNCHANGED <<mutex_, commit_count, last_commit, prev_commit, parameters_, store_call, node_vars>>

\* the operation has run its last statement
AtReturn(t) ==
  \/ frames[t].pc = "return"
  \/ /\ frames[t].pc = "loop"
     /\ frames[t].op = "set_parameters"
     /\ frames[t].todo = <<>>
  \/ /\ frames[t].pc = "loop"
     /\ frames[t].op \in ReadOps
     /\ KeysAfter(parameters_, frames[t].it) = {}

\* a return that leaves mutex_ locked
ReturnKeepsMutex(t) ==
  /\ AtReturn(t)
  /\ UNCHANGED mutex_
  /\ IF frames[t].op \in WriteOps
     THEN /\ commit_count' = commit_count + 1
          /\ last_commit' = [map |-> parameters_, op |-> frames[t].op,
                             parameters |-> frames[t].parameters]
          /\ prev_commit' = last_commit
     ELSE UNCHANGED <<commit_count, last_commit, prev_commit>>
  /\ frames' = [frames EXCEPT ![t] =
       IF t \in Writers THEN [IdleFrame EXCEPT !.pc = "done"] ELSE IdleFrame]
  /\ UNCHANGED <<parameters_, store_call, node_vars>>

\* return results; the lock_guard's destructor unlocks mutex_
Return(t) ==
  /\ AtReturn(t)
  /\ mutex_' = NoThread
  /\ IF frames[t].op \in WriteOps
     THEN /\ commit_count' = commit_count + 1
          /\ last_commit' = [map |-> parameters_, op |-> frames[t].op,
                             parameters |-> frames[t].parameters]
          /\ prev_commit' = last_commit
     ELSE UNCHANGED <<commit_count, last_commit, prev_commit>>
  /\ frames' = [frames EXCEPT ![t] =
       IF t \in Writers THEN [IdleFrame EXCEPT !.pc = "done"] ELSE IdleFrame]
  /\ UNCHANGED <<parameters_, store_call, node_vars>>

(***************************************************************************)
(* The specifications.                                                     *)
(***************************************************************************)
Init == InitNode /\ InitStore /\ InitConc

Next ==
  \/ \E n \in Nodes, group_type \in CallerGroupTypes :
       CreateCallbackGroup(n, group_type) /\ UNCHANGED <<parameters_, store_call, conc_vars>>
  \/ \E group \in CallerGroups :
       DropGroup(group) /\ UNCHANGED <<parameters_, store_call, conc_vars>>
  \/ \E n \in BindingNodes :
       CreatePublisher(n) /\ UNCHANGED <<parameters_, store_call, conc_vars>>
  \/ \E n \in BindingNodes, group \in CallerGroups \cup {NoGroup} :
       CreateSubscription(n, group) /\ UNCHANGED <<parameters_, store_call, conc_vars>>
  \/ \E n \in BindingNodes, group \in CallerGroups \cup {NoGroup} :
       CreateWallTimer(n, group) /\ UNCHANGED <<parameters_, store_call, conc_vars>>
  \/ \E n \in BindingNodes, group \in CallerGroups \cup {NoGroup} :
       CreateClient(n, group) /\ UNCHANGED <<parameters_, store_call, conc_vars>>
  \/ \E n \in BindingNodes, group \in CallerGroups \cup {NoGroup} :
       CreateService(n, group) /\ UNCHANGED <<parameters_, store_call, conc_vars>>

Spec == Init /\ [][Next]_vars

NextStore ==
  \/ \E parameters \in Batches : SetParameters(parameters)
  \/ \E parameters \in Batches : SetParametersAtomically(parameters)
  \/ \E names \in NameLists : GetParameters(names)
  \/ \E names \in NameLists : DescribeParameters(names)
  \/ \E names \in NameLists : GetParameterTypes(names)
  \/ \E prefixes \in PrefixLists, depth \in Depths : ListParameters(prefixes, depth)
  \/ TakeResult

\* the store reads none of the Node's other members: one outcome of the
\* construction is kept
InitStoreSpec == Init /\ number_of_clients_ = [n \in BindingNodes |-> 0]

SpecStore == InitStoreSpec /\ [][NextStore]_vars

NextConc ==
  \/ \E t \in Writers, op \in WriteOps, parameters \in ConcBatches : CallSet(t, op, parameters)
  \/ \E t \in Readers, names \in ConcNameLists : CallGet(t, names)
  \/ \E t \in Threads : AcquireMutex(t)
  \/ \E t \in Threads : SetParametersIter(t)
  \/ \E t \in Threads : StageIter(t)
  \/ \E t \in Threads : InsertExisting(t)
  \/ \E t \in Threads : SwapMaps(t)
  \/ \E t \in Threads : GetParametersIter(t)
  \/ \E t \in Threads : Return(t)

\* the threads start on a store that earlier calls have filled
InitConcSpec ==
  /\ InitNode
  /\ number_of_clients_ = [n \in BindingNodes |-> 0]
  /\ parameters_ \in ConcMaps
  /\ store_call = NoStoreCall
  /\ InitConc

SpecConc == InitConcSpec /\ [][NextConc]_vars

\* SpecThreads: thread t1 makes one call and thread t2 any number of calls, each of
\* any of the six operations; a set call is begun only while fewer than MaxCommits
\* set calls have returned, so that two set calls can still run against each other
MaxCommits == 1

ThreadBatches ==
  { << [name |-> <<"a", ".", "b">>, value |-> [parameter_type |-> PARAMETER_INTEGER,
                                               bool_value |-> FALSE, integer_value |-> 5]],
       [name |-> <<"a", ".", "x">>, value |-> [parameter_type |-> PARAMETER_BOOL,
                                               bool_value |-> TRUE, integer_value |-> 0]] >>,
    << [name |-> <<"a", ".", "b">>, value |-> [parameter_type |-> PARAMETER_BOOL,
                                               bool_value |-> TRUE, integer_value |-> 0]] >> }
ThreadNameLists == { << <<"a", ".", "b">>, <<"a", ".", "x">> >> }
ThreadPrefixLists == { << <<"a">> >> }
ThreadDepths == {2}

\* the statements of an operation that follow the locking of mutex_
StepInside(t) ==
  \/ SetParametersIter(t)
  \/ StageIter(t)
  \/ InsertExisting(t)
  \/ SwapMaps(t)
  \/ GetParametersIter(t)
  \/ DescribeParametersIter(t)
  \/ GetParameterTypesIter(t)
  \/ ListParametersIter(t)
  \/ Return(t)

NextThreads ==
  \/ \E t \in Threads, op \in WriteOps, parameters \in ThreadBatches :
       commit_count < MaxCommits /\ CallSet(t, op, parameters)
  \/ \E t \in Threads, names \in ThreadNameLists : CallGet(t, names)
  \/ \E t \in Threads, op \in NamedReadOps, names \in ThreadNameLists : CallNamed(t, op, names)
  \/ \E t \in Threads, prefixes \in ThreadPrefixLists, depth \in ThreadDepths :
       CallList(t, prefixes, depth)
  \/ \E t \in Threads : AcquireMutex(t)
  \/ \E t \in Threads : StepInside(t)

\* a thread that is in an operation goes on running: a statement that can run is
\* run in the end, and a thread that finds mutex_ free again and again locks it in
\* the end; no thread has to begin a call
FairThreads ==
  \A t \in Threads : SF_vars(AcquireMutex(t)) /\ WF_vars(StepInside(t))

SpecThreads == InitStoreSpec /\ [][NextThreads]_vars /\ FairThreads

(***************************************************************************)
(* What the claims speak of, stated apart from the operations.             *)
(***************************************************************************)
\* the names a batch sets, and the value its last entry for a name gives
KeySet(parameters) == {parameters[i].name : i \in 1..Len(parameters)}

LastIndex(parameters, name) ==
  CHOOSE i \in 1..Len(parameters) :
    /\ parameters[i].name = name
    /\ \A j \in (i + 1)..Len(parameters) : parameters[j].name # name

\* the variant expected for name := value
ExpectedVariant(name, value) ==
  [name_ |-> name,
   type_ |-> value.parameter_type,
   value_ |-> CASE value.parameter_type = PARAMETER_INTEGER -> value.integer_value
                [] value.parameter_type = PARAMETER_BOOL -> value.bool_value]

\* the values of a batch for its own keys, in key order
BatchValues(parameters) ==
  LET keys == SortedKeys(KeySet(parameters))
  IN [i \in 1..Len(keys) |->
        ExpectedVariant(keys[i], parameters[LastIndex(parameters, keys[i])].value)]

\* the values a map holds for the given names, in key order
ValuesAt(m, names) ==
  LET keys == SortedKeys(names \cap DOMAIN m)
  IN [i \in 1..Len(keys) |-> m[keys[i]]]

NameSet(names) == {names[i] : i \in 1..Len(names)}

\* C1: a get_parameters on the key set of an atomic batch, racing that set, returns
\* the values from before the set or the values of the batch, never a mix; issued
\* right after the set it returns the values of the batch.  Checked where the reader
\* has its result in hand: (1) the set is still in progress, (2) the set finished
\* during the read, (3) the set finished before the read began.
C1_AtomicSetNeverMixed ==
  \A t \in Readers :
    (AtReturn(t) /\ frames[t].op = "get_parameters") =>
      LET f == frames[t]
          asked == NameSet(f.names)
      IN /\ \A w \in Writers :
              ( /\ frames[w].op = "set_parameters_atomically"
                /\ frames[w].parameters # <<>>
                /\ KeySet(frames[w].parameters) = asked
                /\ f.first = commit_count )
              => f.results \in { ValuesAt(last_commit.map, asked),
                                 BatchValues(frames[w].parameters) }
         /\ ( /\ last_commit.op = "set_parameters_atomically"
              /\ last_commit.parameters # <<>>
              /\ KeySet(last_commit.parameters) = asked )
            => /\ f.first = commit_count - 1
                  => f.results \in { ValuesAt(prev_commit.map, asked),
                                     BatchValues(last_commit.parameters) }
               /\ (f.first = commit_count /\ \A w \in Writers : frames[w].pc = "done")
                  => f.results = BatchValues(last_commit.parameters)

\* a read of both keys that began before an atomic set of both keys finished and
\* that returns the new values, which differ from the old ones
C1_Witness ==
  \E t \in Readers :
    /\ AtReturn(t)
    /\ frames[t].op = "get_parameters"
    /\ frames[t].first = commit_count - 1
    /\ last_commit.op = "set_parameters_atomically"
    /\ Cardinality(KeySet(last_commit.parameters)) = 2
    /\ KeySet(last_commit.parameters) = NameSet(frames[t].names)
    /\ frames[t].results = BatchValues(last_commit.parameters)
    /\ Len(ValuesAt(prev_commit.map, NameSet(frames[t].names))) = 2
    /\ \A i \in 1..2 :
         ValuesAt(prev_commit.map, NameSet(frames[t].names))[i] # frames[t].results[i]

(***************************************************************************)
(* Claims about the registry and the entity creation operations (Spec).    *)
(***************************************************************************)
CreateOps == {"create_subscription", "create_wall_timer", "create_client", "create_service"}

\* the set of a group that holds the entities created by op
KindSet(g, op) ==
  CASE op = "create_subscription" -> g.subscription_ptrs_
    [] op = "create_wall_timer" -> g.timer_ptrs_
    [] op = "create_client" -> g.client_ptrs_
    [] op = "create_service" -> g.service_ptrs_

\* the counter that counts the entities created by op
KindCounter(counters, op) ==
  CASE op = "create_subscription" -> counters.subscriptions
    [] op = "create_wall_timer" -> counters.timers
    [] op = "create_client" -> counters.clients
    [] op = "create_service" -> counters.services

\* C2: a creation call that supplies a group for which group_in_node is false fails
\* with the error, changes no counter and adds no entity to any callback group.
C2_GroupNotOwnedChangesNothing ==
  ( /\ node_call.op \in CreateOps
    /\ node_call.group # NoGroup
    /\ ~group_in_node(node_call.node, node_call.group) )
  => /\ node_call.result = "runtime_error"
     /\ Counters = node_call.pre_counters
     /\ DOMAIN heap = DOMAIN node_call.pre_heap
     /\ \A g \in DOMAIN heap : Members(heap[g]) = Members(node_call.pre_heap[g])

\* a creation call on one node has just been refused a live group of the other node
C2_Witness ==
  /\ node_call.op \in CreateOps
  /\ node_call.group \in DOMAIN heap
  /\ created_on[node_call.group] # node_call.node
  /\ node_call.result = "runtime_error"

\* C3: a creation call with no group, or with a group for which group_in_node holds,
\* adds the new entity to the resolved group's set of its kind, and raises the
\* counter of its kind by one and no other counter.
C3_EntityBoundAndCounted ==
  ( /\ node_call.op \in CreateOps
    /\ \/ node_call.group = NoGroup
       \/ group_in_node(node_call.node, node_call.group) )
  => LET op == node_call.op
         n == node_call.node
         target == IF node_call.group # NoGroup THEN node_call.group
                   ELSE default_callback_group_[n]
     IN /\ node_call.result = "ok"
        /\ node_call.entity \notin KindSet(node_call.pre_heap[target], op)
        /\ KindSet(heap[target], op) =
             KindSet(node_call.pre_heap[target], op) \cup {node_call.entity}
        /\ KindCounter(Counters, op)[n] = KindCounter(node_call.pre_counters, op)[n] + 1
        /\ \A other \in CreateOps \ {op} :
             KindCounter(Counters, other) = KindCounter(node_call.pre_counters, other)
        /\ \A m \in BindingNodes \ {n} :
             KindCounter(Counters, op)[m] = KindCounter(node_call.pre_counters, op)[m]

\* a creation call has just bound its entity to a group the caller supplied
C3_Witness ==
  /\ node_call.op \in CreateOps
  /\ node_call.group # NoGroup
  /\ node_call.result = "ok"
  /\ node_call.entity \in Members(heap[node_call.group])

\* C4: a live group is in the node that created it and in no other node, whatever
\* was created or dropped in between; a dropped group's reference matches nothing,
\* not even the empty pointer it locks to.
C4_GroupInNodeIffCreatedHere ==
  \A n \in Nodes :
    /\ \A g \in DOMAIN heap : group_in_node(n, g) <=> (created_on[g] = n)
    /\ ~group_in_node(n, NoGroup)

\* a node holds an expired reference and, after it, a live group of its own, while
\* a group of the other node is alive
C4_Witness ==
  \E n \in Nodes :
    \E i, j \in 1..Len(callback_groups_[n]) :
      /\ i < j
      /\ callback_groups_[n][i] \notin DOMAIN heap
      /\ callback_groups_[n][j] \in DOMAIN heap
      /\ \E g \in DOMAIN heap : created_on[g] # n

\* C11: create_publisher changes no counter of the node and the membership of no
\* callback group, the default group included, in whatever state it is called.
C11_PublisherTouchesNothing ==
  node_call.op = "create_publisher" =>
    /\ Counters = node_call.pre_counters
    /\ heap = node_call.pre_heap

\* a publisher has just been created on a node that has an entity in a group and
\* a counter above zero
C11_Witness ==
  /\ node_call.op = "create_publisher"
  /\ \E g \in DOMAIN heap : Members(heap[g]) # {}
  /\ \E op \in CreateOps : KindCounter(Counters, op)[node_call.node] > 0

\* C12: after a creation call that failed because the group is not of the node, the
\* middleware handles that are outstanding are those from before the call.
C12_NoHandleLeftOnFailure ==
  (node_call.op \in CreateOps /\ node_call.result = "runtime_error") =>
    rmw_handles = node_call.pre_handles

\* the groups that hold entity e in one of their sets
GroupsOf(e) == {g \in DOMAIN heap : e \in Members(heap[g])}

\* C13: an entity that has just been created with success, a publisher included,
\* is a member of exactly one callback group.
C13_EveryEntityInExactlyOneGroup ==
  ( /\ node_call.op \in CreateOps \cup {"create_publisher"}
    /\ node_call.result = "ok" )
  => Cardinality(GroupsOf(node_call.entity)) = 1

\* C13, amended: a subscription, timer, client or service that was created with
\* success is a member of the group it was added to, in one set of that group, for
\* as long as that group is alive, and of no other group; the group is alive when
\* the creation returns; a publisher, and the entity of a creation that failed, is
\* a member of no group.
C13_BoundEntityInItsGroupOnly ==
  /\ \A g \in DOMAIN heap :
       /\ Members(heap[g]) = {e \in 1..Len(bound_to) : bound_to[e] = g}
       /\ \A op, other \in CreateOps :
            op # other => KindSet(heap[g], op) \cap KindSet(heap[g], other) = {}
  /\ node_call.op \in CreateOps \cup {"create_publisher"} =>
       IF node_call.op \in CreateOps /\ node_call.result = "ok"
       THEN /\ bound_to[node_call.entity] \in DOMAIN heap
            /\ GroupsOf(node_call.entity) = {bound_to[node_call.entity]}
            /\ node_call.entity \in KindSet(heap[bound_to[node_call.entity]], node_call.op)
       ELSE /\ bound_to[node_call.entity] = NoGroup
            /\ GroupsOf(node_call.entity) = {}

\* a publisher has just been created beside an entity that is in a group a caller
\* created
C13_Witness ==
  /\ node_call.op = "create_publisher"
  /\ \E e \in 1..Len(bound_to) :
       /\ bound_to[e] \in CallerGroups
       /\ GroupsOf(e) = {bound_to[e]}

\* C14: the default group of a node is alive, is the group the constructor created,
\* is the first entry of the node's group collection, and is in the node, in every
\* state.
C14_DefaultGroupStays ==
  \A n \in Nodes :
    LET default == default_callback_group_[n]
    IN /\ default \in DOMAIN heap
       /\ created_on[default] = n
       /\ default = (IF n = "n1" THEN 1 ELSE 2)
       /\ callback_groups_[n] # <<>>
       /\ Head(callback_groups_[n]) = default
       /\ group_in_node(n, default)

\* a node has created two more groups, one of them dropped since, and has an
\* entity in its default group
C14_Witness ==
  \E n \in Nodes :
    /\ Len(callback_groups_[n]) >= 3
    /\ \E i \in 1..Len(callback_groups_[n]) : callback_groups_[n][i] \notin DOMAIN heap
    /\ Members(heap[default_callback_group_[n]]) # {}

\* C16: each of the four counters is zero right after the construction of the
\* node, and every operation after it leaves each counter as it was, but for a
\* creation of the counter's kind that returns with success, which adds one: the
\* counter equals the number of such creations.
C16_CountersCountCreations ==
  \A n \in BindingNodes : \A op \in CreateOps :
    KindCounter(Counters, op)[n] =
      IF node_call.op = "Node" THEN 0
      ELSE KindCounter(node_call.pre_counters, op)[n] +
             (IF node_call.op = op /\ node_call.node = n /\ node_call.result = "ok"
              THEN 1 ELSE 0)

(***************************************************************************)
(* Claims about the parameter store, one call at a time (SpecStore).       *)
(***************************************************************************)
\* the claimed match of a key and a prefix: the key begins with prefix + "." and
\* what follows that separator holds fewer than depth dots
ClaimedPrefixMatch(key, prefix, depth) ==
  /\ FindAtZero(key, prefix \o <<Dot>>)
  /\ Count(Substr(key, Len(prefix) + 1), Dot) < depth

\* the names that a list_parameters result reports
ReportedNames(results) ==
  UNION { NameSet(results[i].parameter_names) : i \in 1..Len(results) }

\* C5: list_parameters reports a stored key exactly when, for some requested
\* prefix, the key begins with prefix + "." and the rest of the key after that
\* separator holds fewer than depth dots.
C5_ListMatchesSuffixDepth ==
  store_call.op = "list_parameters" =>
    ReportedNames(store_call.result) =
      { key \in DOMAIN parameters_ :
          \E i \in 1..Len(store_call.prefixes) :
            ClaimedPrefixMatch(key, store_call.prefixes[i], store_call.depth) }

\* C6: get_parameter_types returns one entry per requested name, in request order:
\* the stored type, or PARAMETER_NOT_SET for a name that is not stored.
C6_TypesAlignWithRequest ==
  store_call.op = "get_parameter_types" =>
    /\ Len(store_call.result) = Len(store_call.names)
    /\ \A i \in 1..Len(store_call.names) :
         store_call.result[i] =
           IF store_call.names[i] \in DOMAIN parameters_
           THEN parameters_[store_call.names[i]].type_
           ELSE PARAMETER_NOT_SET

\* C7: after set_parameters([(p, v)]), get_parameters([p]) returns the one value v
\* and describe_parameters([p]) the one descriptor of name p and the type of v.
C7_SetThenGetAndDescribe ==
  (store_call.op = "set_parameters" /\ Len(store_call.parameters) = 1) =>
    LET p == store_call.parameters[1]
    IN /\ get_parameters(parameters_, <<p.name>>) = <<ExpectedVariant(p.name, p.value)>>
       /\ describe_parameters(parameters_, <<p.name>>) =
            <<[name |-> p.name, parameter_type |-> p.value.parameter_type]>>

\* set_parameters has just given a stored name, one of several, another value
C7_Witness ==
  /\ store_call.op = "set_parameters"
  /\ Len(store_call.parameters) = 1
  /\ Cardinality(DOMAIN store_call.pre) >= 2
  /\ store_call.parameters[1].name \in DOMAIN store_call.pre
  /\ store_call.pre[store_call.parameters[1].name] # parameters_[store_call.parameters[1].name]

\* C8: a second set_parameters with the same batch leaves the map that the first
\* call left.
C8_SetParametersIdempotent ==
  store_call.op = "set_parameters" =>
    set_parameters(parameters_, store_call.parameters).map = parameters_

\* set_parameters has just changed the map with a batch of two names
C8_Witness ==
  /\ store_call.op = "set_parameters"
  /\ Cardinality(KeySet(store_call.parameters)) = 2
  /\ parameters_ # store_call.pre
  /\ store_call.pre # EmptyMap

\* C9: after set_parameters_atomically the map has the keys of the old map and of
\* the batch; a key of the batch holds the batch's value, any other key its old one.
C9_AtomicSetFrame ==
  store_call.op = "set_parameters_atomically" =>
    LET batch == store_call.parameters
    IN /\ DOMAIN parameters_ = DOMAIN store_call.pre \cup KeySet(batch)
       /\ \A k \in KeySet(batch) :
            parameters_[k] = ExpectedVariant(k, batch[LastIndex(batch, k)].value)
       /\ \A k \in DOMAIN store_call.pre \ KeySet(batch) :
            parameters_[k] = store_call.pre[k]

\* an atomic set has just replaced the value of a stored name and kept another name
C9_Witness ==
  /\ store_call.op = "set_parameters_atomically"
  /\ \E k \in KeySet(store_call.parameters) \cap DOMAIN store_call.pre :
       store_call.pre[k] # parameters_[k]
  /\ DOMAIN store_call.pre \ KeySet(store_call.parameters) # {}

\* C10: get_parameters returns the value of each stored name that is requested,
\* once however often it is requested, and nothing for a name that is not stored.
C10_GetReturnsStoredRequested ==
  store_call.op = "get_parameters" =>
    LET wanted == NameSet(store_call.names) \cap DOMAIN parameters_
        result == store_call.result
    IN /\ Len(result) = Cardinality(wanted)
       /\ \A k \in wanted :
            Cardinality({i \in 1..Len(result) : result[i] = parameters_[k]}) = 1
       /\ \A i \in 1..Len(result) :
            \E k \in wanted : result[i] = parameters_[k]

\* get_parameters has just answered a request that names a stored parameter twice
C10_Witness ==
  /\ store_call.op = "get_parameters"
  /\ Len(store_call.names) = 2
  /\ store_call.names[1] = store_call.names[2]
  /\ store_call.names[1] \in DOMAIN parameters_
  /\ Len(store_call.result) = 1

\* C17: no call takes a name out of the store, and a call of one of the four read
\* operations leaves the map as it was, keys and values.
C17_KeysNeverLost ==
  [][ /\ DOMAIN parameters_ \subseteq DOMAIN parameters_'
      /\ store_call'.op \in ReadOps => parameters_' = parameters_ ]_vars

\* an atomic set of one name has just run on a store that holds another name,
\* which is still there
C17_Witness ==
  /\ store_call.op = "set_parameters_atomically"
  /\ store_call.parameters # <<>>
  /\ DOMAIN store_call.pre \ KeySet(store_call.parameters) # {}
  /\ DOMAIN store_call.pre \subseteq DOMAIN parameters_

\* C18: after set_parameters or set_parameters_atomically, a name of the batch, be
\* it named once or several times, holds the value of its last occurrence in the
\* batch, whatever an earlier call had stored for it.
C18_LastWriterWins ==
  store_call.op \in WriteOps =>
    \A k \in KeySet(store_call.parameters) :
      parameters_[k] =
        ExpectedVariant(k, store_call.parameters[LastIndex(store_call.parameters, k)].value)

\* a set call has just run with a batch that gives one name two values, the name
\* holding the first of them from an earlier call
C18_Witness ==
  /\ store_call.op \in WriteOps
  /\ Len(store_call.parameters) = 2
  /\ store_call.parameters[1].name = store_call.parameters[2].name
  /\ store_call.parameters[1].value # store_call.parameters[2].value
  /\ store_call.parameters[1].name \in DOMAIN store_call.pre
  /\ store_call.pre[store_call.parameters[1].name] = from_parameter(store_call.parameters[1])

\* the stored keys for which the test of list_parameters holds for some prefix
MatchingKeys(m, prefixes, depth) == {k \in DOMAIN m : AnyOfPrefixes(prefixes, k, depth)}

\* C19: list_parameters returns one record for each matching key, and no other
\* record, however many of the prefixes the key matches; a record holds one name,
\* the key, and one prefix, the part of the key before its last dot.
C19_OneRecordPerMatchingKey ==
  store_call.op = "list_parameters" =>
    LET matching == MatchingKeys(parameters_, store_call.prefixes, store_call.depth)
        result == store_call.result
    IN /\ Len(result) = Cardinality(matching)
       /\ \A k \in matching :
            Cardinality({i \in 1..Len(result) : result[i].parameter_names = <<k>>}) = 1
       /\ \A i \in 1..Len(result) :
            /\ Len(result[i].parameter_names) = 1
            /\ result[i].parameter_names[1] \in matching
            /\ Len(result[i].parameter_prefixes) = 1
            /\ LET key == result[i].parameter_names[1]
                   prefix == result[i].parameter_prefixes[1]
               IN /\ FindAtZero(key, prefix \o <<Dot>>)
                  /\ Count(Substr(key, Len(prefix) + 1), Dot) = 0

\* list_parameters has just reported a key that matches two of its prefixes
C19_Witness ==
  /\ store_call.op = "list_parameters"
  /\ Len(store_call.prefixes) = 2
  /\ store_call.prefixes[1] # store_call.prefixes[2]
  /\ \E k \in DOMAIN parameters_ :
       /\ PrefixMatches(k, store_call.prefixes[1], store_call.depth)
       /\ PrefixMatches(k, store_call.prefixes[2], store_call.depth)
       /\ \E i \in 1..Len(store_call.result) : store_call.result[i].parameter_names = <<k>>

(***************************************************************************)
(* Claims about the store under concurrent callers (SpecThreads).          *)
(***************************************************************************)
\* the thread is in an operation; it holds mutex_ from its lock to its return
InCall(t) == frames[t].pc \notin {"idle", "done"}
Holding(t) == frames[t].pc \in {"loop", "swap", "return"}

\* what the operation of frame f returns, and the map it leaves, when it runs
\* alone on map m
Serial(f, m) ==
  CASE f.op = "set_parameters" -> set_parameters(m, f.parameters)
    [] f.op = "set_parameters_atomically" -> set_parameters_atomically(m, f.parameters)
    [] f.op = "get_parameters" -> [map |-> m, result |-> get_parameters(m, f.names)]
    [] f.op = "describe_parameters" -> [map |-> m, result |-> describe_parameters(m, f.names)]
    [] f.op = "get_parameter_types" -> [map |-> m, result |-> get_parameter_types(m, f.names)]
    [] f.op = "list_parameters" ->
         [map |-> m, result |-> list_parameters(m, f.prefixes, f.depth)]

\* C15: the calls take effect one after the other, in the order in which they lock
\* mutex_: two threads never hold it together, and a call that has run its last
\* statement has the result, and leaves the map, that it has when run alone on the
\* map the set call before it left; so no call sees part of a batch.
C15_SerialInLockOrder ==
  /\ \A t, u \in Threads : (Holding(t) /\ Holding(u)) => t = u
  /\ \A t \in Threads : Holding(t) => mutex_ = t
  /\ \A t \in Threads :
       AtReturn(t) =>
         /\ parameters_ = Serial(frames[t], last_commit.map).map
         /\ frames[t].results = Serial(frames[t], last_commit.map).result

\* a set of two names has run its last statement while the other thread waits for
\* mutex_ with a call of its own, after an earlier set call has returned
C15_Witness ==
  \E t, u \in Threads :
    /\ t # u
    /\ AtReturn(t)
    /\ frames[t].op = "set_parameters"
    /\ Len(frames[t].parameters) = 2
    /\ frames[u].pc = "lock"
    /\ frames[u].op \in ReadOps \cup WriteOps
    /\ commit_count >= 1
    /\ parameters_ # last_commit.map

====
